---------------------------- MODULE Spec2Model ----------------------------
(***************************************************************************)
(* Model of mcpid/lookup.py: the fraction-string converter frac, the       *)
(* construction of PdgRecords from the bundled csv file, the table         *)
(* accessor and the query PdgRecords.properties.                           *)
(*                                                                         *)
(* Strings handed to frac are sequences of one-character strings.  Values  *)
(* stored in the table are records tagged with their Python type.          *)
(***************************************************************************)
EXTENDS Integers, Sequences, FiniteSets, TLC

VARIABLES
    pc,          \* "new" | "failed" | "ready" | "called" | "frac" | "fracdone"
    csv,         \* the rows of _mcpid.csv, in file order
    frac_obj,    \* the constructor's frac_obj argument (obj_mode of frac)
    lookup,      \* self.__lookup: the rows of the DataFrame indexed by id
    registry,    \* lookup.py's __warningregistry__ holds the warning's key
    pdgs,        \* argument pdgs of the properties() call in progress
    props,       \* argument props of the properties() call in progress
    ret,         \* what the call returned or raised
    warned,      \* the call reached warnings.warn
    shown,       \* the warning was delivered to the caller
    num_str,     \* the string handed to the converter
    fracret      \* what the converter returned or raised

vars == <<pc, csv, frac_obj, lookup, registry, pdgs, props,
          ret, warned, shown, num_str, fracret>>

----------------------------------------------------------------------------
(* Bounds of the model *)

MaxLen == 3

MaxRows == 2

MaxCodes == 3

MaxProps == 2

Alphabet == {"-", "0", "1", "2", "/", "?", "a"}

Strings == UNION {[1..k -> Alphabet] : k \in 0..MaxLen}

----------------------------------------------------------------------------
(* Python values *)

None == [type |-> "NoneType"]

NaN == [type |-> "float", nan |-> TRUE]

Return(v) == [kind |-> "return", value |-> v]

Raise(e) == [kind |-> "raise", exc |-> e]

NoCall == [kind |-> "none"]

----------------------------------------------------------------------------
(* fractions.Fraction(str): [sign] digits [ "/" digits ] *)

IsDigit(c) == c \in {"0", "1", "2"}

DigitVal(c) == CASE c = "0" -> 0 [] c = "1" -> 1 [] c = "2" -> 2

AllDigits(s) == Len(s) >= 1 /\ \A i \in 1..Len(s) : IsDigit(s[i])

RECURSIVE IntOf(_)
IntOf(s) ==
    IF s = <<>> THEN 0
    ELSE 10 * IntOf(SubSeq(s, 1, Len(s) - 1)) + DigitVal(s[Len(s)])

RECURSIVE Gcd(_, _)
Gcd(a, b) == IF b = 0 THEN a ELSE Gcd(b, a % b)

Abs(n) == IF n < 0 THEN -n ELSE n

Rational(n, d) ==
    LET g == Gcd(Abs(n), d)
    IN  [type |-> "Fraction", num |-> n \div g, den |-> d \div g]

Fraction(s) ==
    LET neg   == Len(s) >= 1 /\ s[1] = "-"
        body  == IF neg THEN Tail(s) ELSE s
        slash == {i \in 1..Len(body) : body[i] = "/"}
        cut   == IF slash = {} THEN Len(body) + 1
                 ELSE CHOOSE i \in slash : \A j \in slash : i <= j
        numS  == SubSeq(body, 1, cut - 1)
        denS  == SubSeq(body, cut + 1, Len(body))
        ok    == AllDigits(numS) /\ (slash = {} \/ AllDigits(denS))
        n     == IF neg THEN -IntOf(numS) ELSE IntOf(numS)
        d     == IF slash = {} THEN 1 ELSE IntOf(denS)
    IN  IF ~ok THEN Raise("ValueError")
        ELSE IF d = 0 THEN Raise("ZeroDivisionError")
        ELSE Return(Rational(n, d))

----------------------------------------------------------------------------
(* float(Fraction): numerator / denominator rounded to the nearest double, *)
(* ties to even.  The 53-bit significand is kept as two words: hi holds    *)
(* the leading HiBits bits, lo the LoBits bits that follow.                *)

HiBits == 26

LoBits == 27

Pow2(k) == 2 ^ k

RECURSIVE ExpUp(_, _)
ExpUp(a, d) == IF a >= 2 * d THEN 1 + ExpUp(a, 2 * d) ELSE 0

RECURSIVE ExpDown(_, _)
ExpDown(a, d) == IF a < d THEN 1 + ExpDown(2 * a, d) ELSE 0

\* k further quotient bits of the long division of r by D, and the remainder
Step(r, D, k) == <<(r * Pow2(k)) \div D, (r * Pow2(k)) % D>>

\* the same k bits taken in two steps, which keeps r * 2^k within the integers
Divide(r, D, k, acc) ==
    LET k1 == k \div 2
        k2 == k - k1
        s1 == Step(r, D, k1)
        s2 == Step(s1[2], D, k2)
    IN  <<acc * Pow2(k) + s1[1] * Pow2(k2) + s2[1], s2[2]>>

Float(q) ==
    IF q.num = 0
    THEN [type |-> "float", nan |-> FALSE, sign |-> 0, exp |-> 0,
          hi |-> 0, lo |-> 0]
    ELSE LET a    == Abs(q.num)
             d    == q.den
             e    == IF a >= d THEN ExpUp(a, d) ELSE -ExpDown(a, d)
             A    == IF e < 0 THEN a * Pow2(-e) ELSE a
             D    == IF e > 0 THEN d * Pow2(e) ELSE d
             h    == Divide(A - D, D, HiBits - 1, 1)
             l    == Divide(h[2], D, LoBits, 0)
             up   == 2 * l[2] > D \/ (2 * l[2] = D /\ l[1] % 2 = 1)
             lo1  == IF up THEN l[1] + 1 ELSE l[1]
             hi1  == IF lo1 = Pow2(LoBits) THEN h[1] + 1 ELSE h[1]
             over == hi1 = Pow2(HiBits)
         IN  [type |-> "float", nan |-> FALSE,
              sign |-> IF q.num < 0 THEN 1 ELSE 0,
              exp  |-> IF over THEN e + 1 ELSE e,
              hi   |-> IF over THEN Pow2(HiBits - 1) ELSE hi1,
              lo   |-> IF lo1 = Pow2(LoBits) THEN 0 ELSE lo1]

----------------------------------------------------------------------------
(* frac(num_str, obj_mode) *)

ToFloat(inp) ==
    LET f == Fraction(inp)
    IN  IF f.kind = "raise" THEN f ELSE Return(Float(f.value))

CastFrac(inp, obj_mode) == IF obj_mode THEN Fraction(inp) ELSE ToFloat(inp)

\* frac with the except branch falling back to a float zero in either mode
fracFloatZero(s, obj_mode) ==
    LET r == CastFrac(s, obj_mode)
    IN  IF r.kind = "raise" /\ r.exc = "ValueError"
        THEN IF s = <<>> THEN ToFloat(<<"0", "/", "1">>)
             ELSE IF s = <<"?">> THEN Return(NaN)
             ELSE Return(None)
        ELSE r

frac(s, obj_mode) ==
    LET r == CastFrac(s, obj_mode)
    IN  IF r.kind = "raise" /\ r.exc = "ValueError"
        THEN IF s = <<>> THEN CastFrac(<<"0", "/", "1">>, obj_mode)
             ELSE IF s = <<"?">> THEN Return(NaN)
             ELSE Return(None)
        ELSE r

cast_frac(s) == frac(s, frac_obj)

----------------------------------------------------------------------------
(* The csv file.  Of its columns the model keeps id, pythia, charge (one   *)
(* of the five converted columns) and quarks (a column outside             *)
(* valid_pythia).  A row of the file is its id and its pythia flag; the    *)
(* text of the other cells is fixed by the row: the quarks cell of row k   *)
(* holds a text of its own, the quarks cell of a pythia row is empty (NaN  *)
(* once read), and the charge cell is the charge string of the particle.   *)

Ids == {11, 22}

QueryCodes == Ids \cup {999999999}

PropNames == {"charge", "quarks"}

SeqsUpTo(S, lo, hi) == UNION {[1..k -> S] : k \in lo..hi}

CsvRows == [id : Ids, pythia : BOOLEAN]

CsvFiles == SeqsUpTo(CsvRows, 1, MaxRows)

Text(k, col) == [type |-> "str", row |-> k, col |-> col]

ChargeCell(id) == IF id = 11 THEN <<"-", "1">> ELSE <<"0">>

Range(s) == {s[i] : i \in 1..Len(s)}

(* pd.read_csv(..., converters=converters).set_index("id"): one record per *)
(* file row, in file order; set_index does not verify the ids.             *)
ReadCsv(file) ==
    [k \in 1..Len(file) |->
        [id     |-> file[k].id,
         pythia |-> file[k].pythia,
         charge |-> cast_frac(ChargeCell(file[k].id)),
         quarks |-> IF file[k].pythia THEN Return(NaN)
                    ELSE Return(Text(k, "quarks"))]]

ConverterRaises(tbl) == \E k \in 1..Len(tbl) : tbl[k].charge.kind = "raise"

set_index(tbl) ==
    [k \in 1..Len(tbl) |->
        [id     |-> tbl[k].id,
         pythia |-> tbl[k].pythia,
         charge |-> tbl[k].charge.value,
         quarks |-> tbl[k].quarks.value]]

----------------------------------------------------------------------------
(* np.unique(pdgs, return_inverse=True) *)

Min(S) == CHOOSE x \in S : \A y \in S : x <= y

RECURSIVE SortedSeq(_)
SortedSeq(S) ==
    IF S = {} THEN <<>>
    ELSE <<Min(S)>> \o SortedSeq(S \ {Min(S)})

Unique(a) == SortedSeq(Range(a))

\* inverse[i] is the position of a[i] in Unique(a) (numbered from 1 here)
Inverse(a) ==
    LET u == Unique(a)
    IN  [i \in 1..Len(a) |-> CHOOSE j \in 1..Len(u) : u[j] = a[i]]

----------------------------------------------------------------------------
(* DataFrame.loc[labels]: for each label in turn every row indexed by it,  *)
(* KeyError naming the labels that index no row.                           *)

\* the rows of tbl whose id is in keep, in the table's order
RECURSIVE RowsWith(_, _)
RowsWith(tbl, keep) ==
    IF tbl = <<>> THEN <<>>
    ELSE (IF Head(tbl).id \in keep THEN <<Head(tbl)>> ELSE <<>>)
         \o RowsWith(Tail(tbl), keep)

RECURSIVE LocRows(_, _)
LocRows(tbl, ids) ==
    IF ids = <<>> THEN <<>>
    ELSE RowsWith(tbl, {Head(ids)}) \o LocRows(tbl, Tail(ids))

Index(tbl) == {tbl[k].id : k \in 1..Len(tbl)}

RECURSIVE NotIn(_, _)
NotIn(ids, index) ==
    IF ids = <<>> THEN <<>>
    ELSE (IF Head(ids) \in index THEN <<>> ELSE <<Head(ids)>>)
         \o NotIn(Tail(ids), index)

\* loc that reindexes: a label indexing no row yields a row of missing
\* values instead of KeyError
RECURSIVE ReindexRows(_, _)
ReindexRows(tbl, ids) ==
    IF ids = <<>> THEN <<>>
    ELSE (IF Head(ids) \in Index(tbl) THEN RowsWith(tbl, {Head(ids)})
          ELSE <<[id |-> Head(ids), pythia |-> FALSE,
                  charge |-> NaN, quarks |-> NaN]>>)
         \o ReindexRows(tbl, Tail(ids))

LocReindex(tbl, ids) == Return(ReindexRows(tbl, ids))

Loc(tbl, ids) ==
    LET missing == NotIn(ids, Index(tbl))
    IN  IF missing # <<>>
        THEN [kind |-> "raise", exc |-> "KeyError", keys |-> missing]
        ELSE Return(LocRows(tbl, ids))

----------------------------------------------------------------------------
(* frame[props].to_records(), rfn.drop_fields(.., "id"), uniq_data[inv]    *)

valid_pythia == {"name", "charge", "mass", "width"}

HasDuplicates(names) ==
    \E i, j \in 1..Len(names) : i # j /\ names[i] = names[j]

Cell(r, p) ==
    CASE p = "charge" -> r.charge [] p = "quarks" -> r.quarks

\* the record array: field names and one tuple of values per row
to_records(rows, cols) ==
    LET names == <<"id">> \o cols
    IN  IF HasDuplicates(names) THEN Raise("ValueError")
        ELSE Return([names |-> names,
                     recs  |-> [k \in 1..Len(rows) |->
                                  <<rows[k].id>> \o
                                  [c \in 1..Len(cols) |-> Cell(rows[k], cols[c])]]])

drop_fields(arr) ==
    [names |-> Tail(arr.names),
     recs  |-> [k \in 1..Len(arr.recs) |-> Tail(arr.recs[k])]]

Take(arr, inv) ==
    [names |-> arr.names, recs |-> [i \in 1..Len(inv) |-> arr.recs[inv[i]]]]

contains_pythia(rows) == \E k \in 1..Len(rows) : rows[k].pythia

MustWarn(rows, cols) == contains_pythia(rows) /\ ~(Range(cols) \subseteq valid_pythia)

(* The value or exception of properties(pdgs, props) on the table tbl. *)
Query(tbl, codes, cols) ==
    LET pdg_ids == Unique(codes)
        found   == Loc(tbl, pdg_ids)
    IN  IF found.kind = "raise" THEN found
        ELSE LET uniq == to_records(found.value, cols)
             IN  IF uniq.kind = "raise" THEN uniq
                 ELSE Return(Take(drop_fields(uniq.value), Inverse(codes)))

(* warnings.warn under the interpreter's default filter (no filter set by  *)
(* the caller): a UserWarning is shown the first time it is issued from a  *)
(* source line and recorded in the module's __warningregistry__; later     *)
(* ones from that line are dropped.                                        *)
Delivered(reg) == ~reg

----------------------------------------------------------------------------
(* State machine *)

Idle ==
    /\ pdgs = <<>>
    /\ props = <<>>
    /\ ret = NoCall
    /\ warned = FALSE
    /\ shown = FALSE

Init ==
    /\ pc = "new"
    /\ csv \in CsvFiles
    /\ frac_obj \in BOOLEAN
    /\ lookup = <<>>
    /\ registry = FALSE
    /\ Idle
    /\ num_str = <<>>
    /\ fracret = NoCall

\* PdgRecords(frac_obj)
Construct ==
    /\ pc = "new"
    /\ LET tbl == ReadCsv(csv)
       IN  IF ConverterRaises(tbl)
           THEN /\ pc' = "failed"
                /\ UNCHANGED lookup
           ELSE /\ pc' = "ready"
                /\ lookup' = set_index(tbl)
    /\ UNCHANGED <<csv, frac_obj, registry, pdgs, props, ret, warned, shown,
                   num_str, fracret>>

\* properties() that keeps the narrowed frame in self.__lookup
PropertiesNarrowing(codes, cols) ==
    /\ pc = "ready"
    /\ pc' = "called"
    /\ pdgs' = codes
    /\ props' = cols
    /\ LET found == Loc(lookup, Unique(codes))
           warn  == found.kind = "return" /\ MustWarn(found.value, cols)
       IN  /\ warned' = warn
           /\ shown' = (warn /\ Delivered(registry))
           /\ registry' = (registry \/ warn)
           /\ lookup' = IF found.kind = "return" THEN found.value ELSE lookup
    /\ ret' = Query(lookup, codes, cols)
    /\ UNCHANGED <<csv, frac_obj, num_str, fracret>>

\* records.properties(codes, cols)
Properties(codes, cols) ==
    /\ pc = "ready"
    /\ pc' = "called"
    /\ pdgs' = codes
    /\ props' = cols
    /\ LET found == Loc(lookup, Unique(codes))
           warn  == found.kind = "return" /\ MustWarn(found.value, cols)
       IN  /\ warned' = warn
           /\ shown' = (warn /\ Delivered(registry))
           /\ registry' = (registry \/ warn)
    /\ ret' = Query(lookup, codes, cols)
    /\ UNCHANGED <<csv, frac_obj, lookup, num_str, fracret>>

\* the caller takes the result (or the exception) of the call
Resume ==
    /\ pc = "called"
    /\ pc' = "ready"
    /\ pdgs' = <<>>
    /\ props' = <<>>
    /\ ret' = NoCall
    /\ warned' = FALSE
    /\ shown' = FALSE
    /\ UNCHANGED <<csv, frac_obj, lookup, registry, num_str, fracret>>

\* records.table.drop(code, inplace=True) by a caller holding the accessor's value
TableDrop(code) ==
    /\ pc = "ready"
    /\ code \in Index(lookup)
    /\ lookup' = RowsWith(lookup, Index(lookup) \ {code})
    /\ UNCHANGED <<pc, csv, frac_obj, registry, pdgs, props, ret,
                   warned, shown, num_str, fracret>>

Next ==
    \/ Construct
    \/ \E codes \in SeqsUpTo(QueryCodes, 0, MaxCodes),
          cols \in SeqsUpTo(PropNames, 1, MaxProps) : Properties(codes, cols)
    \/ Resume

Spec == Init /\ [][Next]_vars

NextTable ==
    \/ Next
    \/ \E code \in Ids : TableDrop(code)

SpecTable == Init /\ [][NextTable]_vars

(* The converter on its own: one cell of a rational column is converted.   *)
InitFrac ==
    /\ pc = "frac"
    /\ num_str \in Strings
    /\ frac_obj \in BOOLEAN
    /\ csv = <<>>
    /\ lookup = <<>>
    /\ registry = FALSE
    /\ Idle
    /\ fracret = NoCall

LoadCell ==
    /\ pc = "frac"
    /\ pc' = "fracdone"
    /\ fracret' = cast_frac(num_str)
    /\ UNCHANGED <<csv, frac_obj, lookup, registry, pdgs, props,
                   ret, warned, shown, num_str>>

NextFrac == LoadCell

SpecFrac == InitFrac /\ [][NextFrac]_vars

----------------------------------------------------------------------------
(* Vocabulary of the properties below *)

Built == pc \in {"ready", "called"}

Called == pc = "called"

\* the table __init__ builds from the file
AsConstructed == set_index(ReadCsv(csv))

AllKnown == Range(pdgs) \subseteq Index(lookup)

Absent == Range(pdgs) \ Index(lookup)

UniqueIndex ==
    \A i, j \in 1..Len(lookup) : lookup[i].id = lookup[j].id => i = j

\* some distinct code of the query has a pythia record and some requested
\* property lies outside name, charge, mass, width
FallbackCondition ==
    /\ \E k \in 1..Len(lookup) : lookup[k].id \in Range(pdgs) /\ lookup[k].pythia
    /\ \E c \in 1..Len(props) : props[c] \notin {"name", "charge", "mass", "width"}

Returned == ret.kind = "return"

\* row i of the result is the row the single-code query gives for pdgs[i]
RowIsSingleLookup(i) ==
    LET single == Query(lookup, <<pdgs[i]>>, props)
    IN  /\ single.kind = "return"
        /\ Len(single.value.recs) = 1
        /\ ret.value.recs[i] = single.value.recs[1]

\* row i has one column per requested property, column c holding property
\* props[c] of a record of pdgs[i]
RowIsProjection(i) ==
    /\ Len(ret.value.recs[i]) = Len(props)
    /\ \E k \in 1..Len(lookup) :
          /\ lookup[k].id = pdgs[i]
          /\ \A c \in 1..Len(props) :
                ret.value.recs[i][c] = Cell(lookup[k], props[c])

----------------------------------------------------------------------------
(* C1: for codes that all exist in the table and any non-empty props, the  *)
(* call returns exactly Len(pdgs) rows and row i equals the row of the     *)
(* single-code query for pdgs[i].                                          *)
C1_RowPerPosition ==
    (Called /\ AllKnown) =>
        /\ Returned
        /\ Len(ret.value.recs) = Len(pdgs)
        /\ \A i \in 1..Len(pdgs) : RowIsSingleLookup(i)

(* C2: when a code of the query is not a key of the table the call raises  *)
(* KeyError naming exactly the absent codes, returns nothing and issues no *)
(* warning, wherever and however often the absent code occurs.             *)
C2_UnknownCodeRaises ==
    (Called /\ Absent # {}) =>
        /\ ret.kind = "raise"
        /\ ret.exc = "KeyError"
        /\ Range(ret.keys) = Absent
        /\ ~warned
        /\ ~shown

C2_Witness ==
    /\ Called
    /\ Len(pdgs) = 3
    /\ pdgs[1] \in Index(lookup)
    /\ pdgs[2] \notin Index(lookup)
    /\ pdgs[3] = pdgs[2]
    /\ ret.kind = "raise"

(* C3: a query on valid codes issues the warning exactly when the fallback *)
(* condition holds, and in either case returns Len(pdgs) rows without      *)
(* raising.                                                                *)
C3_WarnIffFallback ==
    (Called /\ AllKnown) =>
        /\ warned <=> FallbackCondition
        /\ Returned
        /\ Len(ret.value.recs) = Len(pdgs)

(* C4: every query that meets the fallback condition has its warning       *)
(* delivered to the caller, the second and later ones included.            *)
C4_WarningDelivered == (Called /\ AllKnown /\ FallbackCondition) => shown

(* C5: for a string that is no parseable rational and neither "" nor "?",  *)
(* frac raises ValueError in either mode; it returns nothing.              *)
C5_UnparseableRaises ==
    (/\ pc = "fracdone"
     /\ Fraction(num_str).kind # "return"
     /\ num_str # <<>>
     /\ num_str # <<"?">>) => fracret.kind = "raise"

(* C6: the mode decides the type of a converted cell: exact mode gives the *)
(* rational in lowest terms equal to the parsed one, and 0/1 for "";       *)
(* float mode gives the double nearest to that rational, and 0.0 for "";   *)
(* "?" gives NaN in both modes.                                            *)
C6_ModeDecidesType ==
    pc = "fracdone" =>
        LET parsed == Fraction(num_str)
            zero   == [type |-> "Fraction", num |-> 0, den |-> 1]
            wanted == IF num_str = <<>> THEN zero ELSE parsed.value
        IN  /\ (parsed.kind = "return" \/ num_str = <<>>) =>
                  /\ fracret.kind = "return"
                  /\ frac_obj =>
                        /\ fracret.value.type = "Fraction"
                        /\ fracret.value.den > 0
                        /\ Gcd(Abs(fracret.value.num), fracret.value.den) = 1
                        /\ fracret.value.num * wanted.den
                              = wanted.num * fracret.value.den
                  /\ ~frac_obj =>
                        /\ fracret.value.type = "float"
                        /\ fracret.value = Float(wanted)
            /\ num_str = <<"?">> => fracret = Return(NaN)

C6_Witness ==
    /\ pc = "fracdone"
    /\ frac_obj
    /\ num_str = <<"2", "/", "2">>
    /\ fracret = Return([type |-> "Fraction", num |-> 1, den |-> 1])

(* C7: each row of the result has exactly Len(props) columns, column c     *)
(* holding property props[c], also when props names a property twice, and  *)
(* the id column does not appear.                                          *)
C7_ColumnsAsRequested ==
    (Called /\ AllKnown) =>
        /\ Returned
        /\ ret.value.names = props
        /\ \A i \in 1..Len(ret.value.recs) : RowIsProjection(i)

(* C8: construction fails when the file holds the same id on two rows, so  *)
(* in a constructed instance every code indexes exactly one record.        *)
C8_DuplicateIdRejected == Built => UniqueIndex

(* C9: after any sequence of properties() calls, the failed and the warned *)
(* ones included, the table is the one construction built, and the outcome *)
(* of a call is fixed by that table and the call's arguments alone, so a   *)
(* repeated query has the outcome it had the first time.                   *)
C9_TableUnchanged ==
    Built =>
        /\ lookup = AsConstructed
        /\ Called => ret = Query(AsConstructed, pdgs, props)

C9_Witness ==
    /\ Called
    /\ registry
    /\ ~warned
    /\ ret.kind = "raise"
    /\ ret.exc = "KeyError"
    /\ lookup = AsConstructed

(* C10: nothing a caller does with the object the table accessor returns   *)
(* changes what later properties() calls look up.                          *)
C10_TableReadOnly ==
    Called => ret = Query(AsConstructed, pdgs, props)

----------------------------------------------------------------------------
(* What the query does on a table with unique ids when no property is      *)
(* named twice: one row per position, equal to the single-code row, with   *)
(* the requested columns in order, and warn() reached exactly on the       *)
(* fallback condition.                                                     *)
WellFormedQuery ==
    (Called /\ AllKnown /\ UniqueIndex /\ ~HasDuplicates(props)) =>
        /\ Returned
        /\ ret.value.names = props
        /\ Len(ret.value.recs) = Len(pdgs)
        /\ \A i \in 1..Len(pdgs) : RowIsSingleLookup(i) /\ RowIsProjection(i)
        /\ warned <=> FallbackCondition
        /\ shown => warned

WellFormedQuery_Witness ==
    /\ Called
    /\ UniqueIndex
    /\ Len(pdgs) = 3
    /\ pdgs[1] > pdgs[2]
    /\ pdgs[3] = pdgs[1]
    /\ Len(props) = 2
    /\ Returned
    /\ warned

=============================================================================
